---- MODULE Spec2Model ----
(***************************************************************************)
(* A model of the three programs of the repository:                        *)
(*   ex0/stream_processor.py  DataProcessor and its three processors       *)
(*   ex1/data_stream.py       DataStream and its three streams             *)
(*   ex2/nexus_pipeline.py    stages, adapters (pipelines), NexusManager   *)
(* Python values are records tagged with their type in the field kind.     *)
(* A call is modelled by its result: whether it returned or raised, the    *)
(* value returned, and the calls it made on the way.                       *)
(***************************************************************************)
EXTENDS Integers, Sequences, FiniteSets, TLC

VARIABLES stages, pipelines, total_processed, succeeded, op, outcome, ret, trace

vars ==
    <<stages, pipelines, total_processed, succeeded, op, outcome, ret, trace>>

\* the objects of ex2 and of ex1
ex2vars == <<stages, pipelines>>

ex1vars == <<total_processed, succeeded>>

(***************************************************************************)
(* Bounds of the model.                                                    *)
(***************************************************************************)
MaxStages == 2
MaxPipelines == 2

(***************************************************************************)
(* Python values.  A str is a sequence of tokens; the token "," is the     *)
(* comma character and every other token is a comma-free run of            *)
(* characters.  The degree sign of the source's literals is left out.      *)
(***************************************************************************)
NoneValue == [kind |-> "None"]

Str(s) == [kind |-> "str", text |-> s]

Dict(ks, v, u) == [kind |-> "dict", keys |-> ks, value |-> v, unit |-> u]

ListOf(xs) == [kind |-> "list", items |-> xs]

json_data == Dict({"sensor", "value", "unit"}, <<"23.5">>, <<"C">>)

empty_dict == Dict({}, <<>>, <<>>)

csv_data == Str(<<"\"user", ",", "action", ",", "timestamp\"">>)

stream_data == Str(<<"Real-time sensor stream">>)

Payloads == {json_data, empty_dict, csv_data, stream_data, NoneValue}

IsDict(data) == data.kind = "dict"

IsStr(data) == data.kind = "str"

\* "," in data
HasComma(data) == \E i \in 1..Len(data.text) : data.text[i] = ","

\* data.split(","): the runs of tokens between commas, empty runs included
RECURSIVE SplitFrom(_, _, _, _)
SplitFrom(s, i, cur, acc) ==
    IF i > Len(s) THEN Append(acc, cur)
    ELSE IF s[i] = "," THEN SplitFrom(s, i + 1, <<>>, Append(acc, cur))
    ELSE SplitFrom(s, i + 1, Append(cur, s[i]), acc)

Split(s) == SplitFrom(s, 1, <<>>, <<>>)

\* str(n): the decimal digits of n, with "-" before those of a negative n
Digits == <<"0", "1", "2", "3", "4", "5", "6", "7", "8", "9">>

RECURSIVE Decimal(_)
Decimal(n) ==
    IF n < 10 THEN <<Digits[n + 1]>>
    ELSE Append(Decimal(n \div 10), Digits[(n % 10) + 1])

IntToStr(n) == IF n < 0 THEN <<"-">> \o Decimal(0 - n) ELSE Decimal(n)

(***************************************************************************)
(* Stages.  InputStage, TransformStage and OutputStage are the classes of  *)
(* the source; FailingStage and TagStage are stages a caller installs      *)
(* through the ProcessingStage protocol: one raises, one derives a new     *)
(* value from its input.  TransformStage and OutputStage have the code of  *)
(* InputStage and are not installed separately.                            *)
(***************************************************************************)
Adapters == {"JSONAdapter", "CSVAdapter", "StreamAdapter"}

StageKinds == {"InputStage", "FailingStage", "TagStage"}

Returned(v, calls) == [raised |-> FALSE, value |-> v, calls |-> calls]

Raised(calls) == [raised |-> TRUE, value |-> NoneValue, calls |-> calls]

StageProcess(stage, data) ==
    CASE stage = "FailingStage" -> Raised(<<>>)
      [] stage = "TagStage" ->
            IF IsStr(data) THEN Returned(Str(Append(data.text, "tag")), <<>>)
            ELSE Returned(data, <<>>)
      [] OTHER -> Returned(data, <<>>)

StageCall(adapter, i, data) ==
    [ev |-> "stage", adapter |-> adapter, idx |-> i, data |-> data]

ProcessCall(adapter, data) ==
    [ev |-> "process", adapter |-> adapter, idx |-> 0, data |-> data]

PrintCall(text) ==
    [ev |-> "print", adapter |-> "main", idx |-> 0, data |-> Str(<<text>>)]

\* ProcessingPipeline.add_stage
add_stage(ss, stage) == Append(ss, stage)

\* ProcessingPipeline.run_stages: the loop from stage i on, with the calls so far
RECURSIVE RunFrom(_, _, _, _, _)
RunFrom(adapter, ss, i, result, calls) ==
    IF i > Len(ss) THEN Returned(result, calls)
    ELSE LET r == StageProcess(ss[i], result)
             cs == Append(calls, StageCall(adapter, i, result))
         IN IF r.raised THEN Raised(cs)
            ELSE RunFrom(adapter, ss, i + 1, r.value, cs)

\* run_stages with a stage's failure swallowed: the loop goes on with the
\* value it had
RECURSIVE RunFromSkipFailed(_, _, _, _, _)
RunFromSkipFailed(adapter, ss, i, result, calls) ==
    IF i > Len(ss) THEN Returned(result, calls)
    ELSE LET r == StageProcess(ss[i], result)
             cs == Append(calls, StageCall(adapter, i, result))
         IN RunFromSkipFailed(adapter, ss, i + 1,
                              IF r.raised THEN result ELSE r.value, cs)

run_stages_skip_failed(adapter, ss, data) ==
    RunFromSkipFailed(adapter, ss, 1, data, <<>>)

\* run_stages with every stage given the original data instead of the result
\* of the stage before it
RECURSIVE RunFromStaleInput(_, _, _, _, _, _)
RunFromStaleInput(adapter, ss, i, data, result, calls) ==
    IF i > Len(ss) THEN Returned(result, calls)
    ELSE LET r == StageProcess(ss[i], data)
             cs == Append(calls, StageCall(adapter, i, data))
         IN IF r.raised THEN Raised(cs)
            ELSE RunFromStaleInput(adapter, ss, i + 1, data, r.value, cs)

run_stages_stale_input(adapter, ss, data) ==
    RunFromStaleInput(adapter, ss, 1, data, data, <<>>)

run_stages(adapter, ss, data) == RunFrom(adapter, ss, 1, data, <<>>)

\* an adapter's process with no except clause: the error reaches the caller
Reraise(r) == r

\* the except clause of an adapter's process: print the error, return None
Catch(r) == IF r.raised THEN Returned(NoneValue, r.calls) ELSE r

\* data.get(key, default) for the keys "value" and "unit"
GetValue(data) == IF "value" \in data.keys THEN data.value ELSE <<"N/A">>

GetUnit(data) == IF "unit" \in data.keys THEN data.unit ELSE <<>>

JSONOutput(data) ==
    Str(<<"Processed temperature reading: ">> \o GetValue(data)
        \o GetUnit(data) \o <<" (Normal range)">>)

\* sum(1 for activity in data.split(",") if activity == 'action')
NumActions(data) ==
    LET parts == Split(data.text)
    IN Cardinality({i \in 1..Len(parts) : parts[i] = <<"action">>})

CSVOutput(data) ==
    Str(<<"User activity logged: ">> \o IntToStr(NumActions(data))
        \o <<" actions processed">>)

StreamOutput == Str(<<"Stream summary: 5 readings", ",", " avg: 22.1C">>)

\* the try block: validate, run the stages, interpret the original payload
AdapterBody(adapter, valid, ss, data, output) ==
    IF ~valid THEN Raised(<<>>)
    ELSE LET r == run_stages(adapter, ss, data)
         IN IF r.raised THEN Raised(r.calls) ELSE Returned(output, r.calls)

JSONAdapter_process(ss, data) ==
    Catch(AdapterBody("JSONAdapter", IsDict(data), ss, data,
                      IF IsDict(data) THEN JSONOutput(data) ELSE NoneValue))

\* CSVAdapter.process with the test for "," left out of the validation
CSVAdapter_process_no_comma_check(ss, data) ==
    Catch(AdapterBody("CSVAdapter", IsStr(data), ss, data,
                      IF IsStr(data) THEN CSVOutput(data) ELSE NoneValue))

CSVAdapter_process(ss, data) ==
    Catch(AdapterBody("CSVAdapter", IsStr(data) /\ HasComma(data), ss, data,
                      IF IsStr(data) THEN CSVOutput(data) ELSE NoneValue))

StreamAdapter_process(ss, data) ==
    Catch(AdapterBody("StreamAdapter", IsStr(data), ss, data, StreamOutput))

\* pipeline.process(data): dynamic dispatch on the adapter's class; the
\* result's calls start with the call of process itself
Process(adapter, data) ==
    LET r == CASE adapter = "JSONAdapter" ->
                      JSONAdapter_process(stages[adapter], data)
               [] adapter = "CSVAdapter" ->
                      CSVAdapter_process(stages[adapter], data)
               [] OTHER -> StreamAdapter_process(stages[adapter], data)
    IN [r EXCEPT !.calls = <<ProcessCall(adapter, data)>> \o @]

\* NexusManager.process_data: the loop from pipeline i on
RECURSIVE ProcessDataFrom(_, _, _, _)
ProcessDataFrom(pl, i, data, calls) ==
    IF i > Len(pl) THEN Returned(NoneValue, calls)
    ELSE LET r == Process(pl[i], data)
         IN IF r.raised THEN Raised(calls \o r.calls)
            ELSE ProcessDataFrom(pl, i + 1, data, calls \o r.calls)

\* process_data that stops at the first pipeline whose process returns None
RECURSIVE ProcessDataFailFast(_, _, _, _)
ProcessDataFailFast(pl, i, data, calls) ==
    IF i > Len(pl) THEN Returned(NoneValue, calls)
    ELSE LET r == Process(pl[i], data)
         IN IF r.raised THEN Raised(calls \o r.calls)
            ELSE IF r.value = NoneValue THEN Returned(NoneValue, calls \o r.calls)
            ELSE ProcessDataFailFast(pl, i + 1, data, calls \o r.calls)

process_data_fail_fast(pl, data) == ProcessDataFailFast(pl, 1, data, <<>>)

process_data(pl, data) == ProcessDataFrom(pl, 1, data, <<>>)

\* NexusManager.chain_pipelines: the loop from pipeline i on
RECURSIVE ChainFrom(_, _, _, _)
ChainFrom(pl, i, result, calls) ==
    IF i > Len(pl) THEN Returned(result, calls)
    ELSE LET r == Process(pl[i], result)
         IN IF r.raised THEN Raised(calls \o r.calls)
            ELSE ChainFrom(pl, i + 1, r.value, calls \o r.calls)

chain_pipelines(data, pl) == ChainFrom(pl, 1, data, <<>>)

\* __main__, "Error Recovery Test": try / except Exception / finally
recovery_test ==
    LET r == Process("CSVAdapter", stream_data)
        caught == IF r.raised
                  THEN <<PrintCall("Error detected in Stage 2: Invalid data format")>>
                  ELSE <<>>
    IN Returned(NoneValue,
                r.calls \o caught \o
                <<PrintCall("Recovery initiated: Switching to backup processor"),
                  PrintCall("Recovery successful: Pipeline restored, processing resumed")>>)

(***************************************************************************)
(* ex1: the streams.  A batch is a list whose elements are ints or strs.   *)
(* A call's result carries the stream's total_processed after the call.    *)
(* There is one stream of each class, named by its class.                  *)
(***************************************************************************)
MaxBatch == 2
MaxTotal == 3

Streams == {"SensorStream", "TransactionStream", "EventStream"}

Num(n) == [kind |-> "int", n |-> n]

IsNum(x) == x.kind = "int"

Elements == {Num(22), Num(150), Num(0 - 150), Str(<<"error">>)}

Criteria == {"None", "high"}

StreamReturned(v, total) == [raised |-> FALSE, value |-> v, total |-> total]

StreamRaised(total) == [raised |-> TRUE, value |-> NoneValue, total |-> total]

\* an element inside an f-string
Format(x) == IF IsNum(x) THEN IntToStr(x.n) ELSE x.text

RECURSIVE Sum(_)
Sum(batch) == IF batch = <<>> THEN 0 ELSE Head(batch).n + Sum(Tail(batch))

AllNum(batch) == \A i \in 1..Len(batch) : IsNum(batch[i])

\* f"{n:+}"
Signed(n) == IF n < 0 THEN IntToStr(n) ELSE <<"+">> \o IntToStr(n)

SensorStream_process_batch(total, batch) ==
    LET t == total + Len(batch)
    IN IF batch = <<>> THEN StreamRaised(t)
       ELSE StreamReturned(
                Str(<<"Sensor analysis: ">> \o IntToStr(Len(batch))
                    \o <<" readings processed", ",", " avg temp: ">>
                    \o Format(batch[1]) \o <<"C">>), t)

TransactionStream_process_batch(total, batch) ==
    LET t == total + Len(batch)
    IN IF ~AllNum(batch) THEN StreamRaised(t)
       ELSE StreamReturned(
                Str(<<"Transaction analysis: ">> \o IntToStr(Len(batch))
                    \o <<" operations", ",", " net flow: ">>
                    \o Signed(Sum(batch)) \o <<" units">>), t)

EventStream_process_batch(total, batch) ==
    LET t == total + Len(batch)
        num_errors ==
            Cardinality({i \in 1..Len(batch) : batch[i] = Str(<<"error">>)})
        error_word == IF num_errors = 1 THEN "error" ELSE "errors"
    IN StreamReturned(
           Str(<<"Event analysis: ">> \o IntToStr(Len(batch))
               \o <<" events", ",", " ">> \o IntToStr(num_errors)
               \o <<" ", error_word, " detected">>), t)

process_batch(stream, total, batch) ==
    CASE stream = "SensorStream" -> SensorStream_process_batch(total, batch)
      [] stream = "TransactionStream" ->
            TransactionStream_process_batch(total, batch)
      [] OTHER -> EventStream_process_batch(total, batch)

\* SensorStream keeps data > 50, TransactionStream data > 100 or data < -100;
\* comparing a str with an int raises; EventStream inherits DataStream's
\* filter_data
filter_data(stream, total, batch, criteria) ==
    IF stream = "EventStream" \/ criteria # "high"
    THEN StreamReturned(ListOf(batch), total)
    ELSE IF ~AllNum(batch) THEN StreamRaised(total)
    ELSE IF stream = "SensorStream"
    THEN StreamReturned(ListOf(SelectSeq(batch, LAMBDA x : x.n > 50)), total)
    ELSE StreamReturned(
             ListOf(SelectSeq(batch, LAMBDA x : x.n > 100 \/ x.n < 0 - 100)),
             total)

StreamType(stream) ==
    CASE stream = "SensorStream" -> "Environmental Data"
      [] stream = "TransactionStream" -> "Financial Data"
      [] OTHER -> "System Events"

DataType(stream) ==
    CASE stream = "SensorStream" -> "Sensor data"
      [] stream = "TransactionStream" -> "Transaction data"
      [] OTHER -> "Event data"

Noun(stream) ==
    CASE stream = "SensorStream" -> " readings processed"
      [] stream = "TransactionStream" -> " operations processed"
      [] OTHER -> " events processed"

get_stats(stream, total) ==
    StreamReturned(
        [kind |-> "dict",
         stream_id |-> stream,
         stream_type |-> StreamType(stream),
         data_type |-> DataType(stream),
         total_processed |-> total,
         summary |-> Str(IntToStr(total) \o <<Noun(stream)>>)],
        total)

(***************************************************************************)
(* ex0: the processors.  Here a str is a sequence of pieces: " " and ":"   *)
(* are single characters and "ERROR" is that word.                         *)
(***************************************************************************)
MaxLen == 3
MaxStrLen == 4

Processors == {"NumericProcessor", "TextProcessor", "LogProcessor"}

Alphabet == {"ERROR", " ", ":"}

ListElements == {Num(1), Num(2), Str(<<"ERROR">>)}

Bool(b) == [kind |-> "bool", b |-> b]

IsList(data) == data.kind = "list"

\* len(data) of a str: its number of characters
RECURSIVE Chars(_)
Chars(s) ==
    IF s = <<>> THEN 0
    ELSE (IF Head(s) = "ERROR" THEN 5 ELSE 1) + Chars(Tail(s))

\* len(data.split()): the number of maximal runs without whitespace
Words(s) ==
    Cardinality({i \in 1..Len(s) : s[i] # " " /\ (i = 1 \/ s[i - 1] = " ")})

\* ": " in data
HasSeparator(s) == \E i \in 1..(Len(s) - 1) : s[i] = ":" /\ s[i + 1] = " "

\* data.split(": "): separators are taken from the left, without overlap
RECURSIVE SplitOnSeparator(_, _, _, _)
SplitOnSeparator(s, i, cur, acc) ==
    IF i > Len(s) THEN Append(acc, cur)
    ELSE IF i < Len(s) /\ s[i] = ":" /\ s[i + 1] = " "
    THEN SplitOnSeparator(s, i + 2, <<>>, Append(acc, cur))
    ELSE SplitOnSeparator(s, i + 1, Append(cur, s[i]), acc)

\* f"{average:.1f}" for average = total / n with total >= 0: the tenths,
\* rounded to nearest, a tie to the even tenth
OneDecimal(total, n) ==
    LET q == (10 * total) \div n
        r == (10 * total) % n
        tenths == IF 2 * r > n \/ (2 * r = n /\ q % 2 = 1) THEN q + 1 ELSE q
    IN IntToStr(tenths \div 10) \o <<".">> \o IntToStr(tenths % 10)

\* sum(data) raises TypeError unless data is an iterable of numbers; an
\* empty list and an empty str both sum to 0
Summable(data) ==
    \/ IsList(data) /\ AllNum(data.items)
    \/ IsStr(data) /\ data.text = <<>>

NumericProcessor_validate(data) == Returned(Bool(Summable(data)), <<>>)

NumericProcessor_process(data) ==
    IF ~Summable(data) THEN Raised(<<>>)
    ELSE IF IsStr(data) \/ data.items = <<>> THEN Raised(<<>>)
    ELSE Returned(
             Str(<<"Processed ">> \o IntToStr(Len(data.items))
                 \o <<" numeric values", ",", " sum=">>
                 \o IntToStr(Sum(data.items)) \o <<",", " avg=">>
                 \o OneDecimal(Sum(data.items), Len(data.items))), <<>>)

TextProcessor_validate(data) == Returned(Bool(IsStr(data)), <<>>)

TextProcessor_process(data) ==
    IF ~IsStr(data) THEN Raised(<<>>)
    ELSE Returned(
             Str(<<"Processed text: ">> \o IntToStr(Chars(data.text))
                 \o <<" characters", ",", " ">> \o IntToStr(Words(data.text))
                 \o <<" words">>), <<>>)

LogProcessor_validate(data) ==
    Returned(Bool(IsStr(data) /\ HasSeparator(data.text)), <<>>)

Prefix(level) ==
    CASE level = <<"ERROR">> -> "[ALERT]"
      [] level = <<"INFO">> -> "[INFO]"
      [] level = <<"WARNING">> -> "[WARNING]"
      [] level = <<"DEBUG">> -> "[DEBUG]"
      [] level = <<"CRITICAL">> -> "[CRITICAL]"
      [] OTHER -> "[LOG]"

\* level, message = data.split(": ") raises ValueError unless there are
\* exactly two parts
LogProcessor_process(data) ==
    IF ~IsStr(data) THEN Raised(<<>>)
    ELSE LET parts == SplitOnSeparator(data.text, 1, <<>>, <<>>)
         IN IF Len(parts) # 2 THEN Raised(<<>>)
            ELSE Returned(
                     Str(<<Prefix(parts[1]), " ">> \o parts[1]
                         \o <<" level detected: ">> \o parts[2]), <<>>)

validate(processor, data) ==
    CASE processor = "NumericProcessor" -> NumericProcessor_validate(data)
      [] processor = "TextProcessor" -> TextProcessor_validate(data)
      [] OTHER -> LogProcessor_validate(data)

processor_process(processor, data) ==
    CASE processor = "NumericProcessor" -> NumericProcessor_process(data)
      [] processor = "TextProcessor" -> TextProcessor_process(data)
      [] OTHER -> LogProcessor_process(data)

\* DataProcessor.format_output
format_output(result) == Str(<<"Output: ">> \o result.text)

(***************************************************************************)
(* The state of ex2 and its operations.  op is the last call made, outcome *)
(* whether it returned or raised, ret its return value, and trace the      *)
(* calls of process and of stages it made, in order.                       *)
(***************************************************************************)
Call(name, adapter, data, list) ==
    [name |-> name, adapter |-> adapter, data |-> data, list |-> list]

NoCall == Call("none", "none", NoneValue, <<>>)

RECURSIVE SeqsUpTo(_, _)
SeqsUpTo(S, n) ==
    IF n = 0 THEN {<<>>}
    ELSE LET shorter == SeqsUpTo(S, n - 1)
         IN shorter \cup {Append(s, x) : s \in shorter, x \in S}

TotalStages ==
    Len(stages["JSONAdapter"]) + Len(stages["CSVAdapter"])
        + Len(stages["StreamAdapter"])

Done(call, r) ==
    /\ op' = call
    /\ outcome' = IF r.raised THEN "raised" ELSE "returned"
    /\ ret' = r.value
    /\ trace' = r.calls

Init ==
    /\ stages = [a \in Adapters |-> <<>>]
    /\ pipelines = <<>>
    /\ total_processed = [s \in Streams |-> 0]
    /\ succeeded = [s \in Streams |-> 0]
    /\ op = NoCall
    /\ outcome = "returned"
    /\ ret = NoneValue
    /\ trace = <<>>

AddStage ==
    \E a \in Adapters, s \in StageKinds :
        /\ TotalStages < MaxStages
        /\ stages' = [stages EXCEPT ![a] = add_stage(@, s)]
        /\ Done(Call("add_stage", a, NoneValue, <<>>), Returned(NoneValue, <<>>))
        /\ UNCHANGED <<pipelines, ex1vars>>

AddPipeline ==
    \E a \in Adapters :
        /\ Len(pipelines) < MaxPipelines
        /\ pipelines' = Append(pipelines, a)
        /\ Done(Call("add_pipeline", a, NoneValue, <<>>), Returned(NoneValue, <<>>))
        /\ UNCHANGED <<stages, ex1vars>>

RunStages ==
    \E a \in Adapters, data \in Payloads :
        /\ Done(Call("run_stages", a, data, <<>>), run_stages(a, stages[a], data))
        /\ UNCHANGED <<ex2vars, ex1vars>>

ProcessOp ==
    \E a \in Adapters, data \in Payloads :
        /\ Done(Call("process", a, data, <<>>), Process(a, data))
        /\ UNCHANGED <<ex2vars, ex1vars>>

ProcessData ==
    \E data \in Payloads :
        /\ Done(Call("process_data", "manager", data, pipelines),
                process_data(pipelines, data))
        /\ UNCHANGED <<ex2vars, ex1vars>>

\* the caller chains through the list the manager holds
ChainPipelines ==
    \E data \in Payloads :
        /\ Done(Call("chain_pipelines", "manager", data, pipelines),
                chain_pipelines(data, pipelines))
        /\ UNCHANGED <<ex2vars, ex1vars>>

RecoveryTest ==
    /\ Done(Call("recovery_test", "CSVAdapter", stream_data, <<>>), recovery_test)
    /\ UNCHANGED <<ex2vars, ex1vars>>

NextAdapter == AddStage \/ RunStages \/ ProcessOp

SpecAdapter == Init /\ [][NextAdapter]_vars

NextNexus ==
    AddStage \/ AddPipeline \/ ProcessOp \/ ProcessData \/ ChainPipelines
        \/ RecoveryTest

SpecNexus == Init /\ [][NextNexus]_vars

(***************************************************************************)
(* Properties of ex2.                                                      *)
(***************************************************************************)
\* the shape contract of each adapter
MatchesContract(adapter, data) ==
    CASE adapter = "JSONAdapter" -> data.kind = "dict"
      [] adapter = "CSVAdapter" ->
            data.kind = "str" /\ \E i \in 1..Len(data.text) : data.text[i] = ","
      [] OTHER -> data.kind = "str"

ProcessEvents(tr) == SelectSeq(tr, LAMBDA e : e.ev = "process")

StageEvents(tr) == SelectSeq(tr, LAMBDA e : e.ev = "stage")

\* the stage at position i is the first of ss that fails
FirstFailing(ss, i) ==
    /\ ss[i] = "FailingStage"
    /\ \A j \in 1..(i - 1) : ss[j] # "FailingStage"

\* the stage calls of tr are those of positions 1..i of the adapter, in order
StagesUpTo(tr, adapter, i) ==
    /\ Len(tr) = i
    /\ \A j \in 1..i : tr[j].ev = "stage" /\ tr[j].adapter = adapter /\ tr[j].idx = j

\* C1: a payload that does not match the adapter's shape contract makes
\* process invoke no stage and return the failure outcome (None).
C1_InvalidPayloadRunsNoStage ==
    (op.name = "process" /\ ~MatchesContract(op.adapter, op.data))
        => /\ StageEvents(trace) = <<>>
           /\ outcome = "returned"
           /\ ret = NoneValue

\* C1 witness: the CSV adapter, with stages installed, was given a str
\* without a comma.
C1_Witness ==
    /\ op.name = "process"
    /\ op.adapter = "CSVAdapter"
    /\ op.data = stream_data
    /\ Len(stages["CSVAdapter"]) >= 1

\* C9: when the stage at position i is the first to fail, run_stages has
\* called the stages of positions 1..i once each, in order, and no later
\* one, and the failure leaves run_stages; process, given a valid payload,
\* makes the same stage calls and reports the failure.
C9_StageFailureAbortsChain ==
    op.name \in {"run_stages", "process"}
        => \A i \in 1..Len(stages[op.adapter]) :
              FirstFailing(stages[op.adapter], i)
                 => /\ op.name = "run_stages"
                         => /\ StagesUpTo(trace, op.adapter, i)
                            /\ outcome = "raised"
                    /\ (op.name = "process" /\ MatchesContract(op.adapter, op.data))
                         => /\ trace[1] = ProcessCall(op.adapter, op.data)
                            /\ StagesUpTo(Tail(trace), op.adapter, i)
                            /\ outcome = "returned"
                            /\ ret = NoneValue

\* C9 witness: run_stages ran a chain whose first stage fails and whose
\* second stage was not called.
C9_Witness ==
    /\ op.name = "run_stages"
    /\ Len(stages[op.adapter]) = 2
    /\ FirstFailing(stages[op.adapter], 1)
    /\ Len(trace) = 1

RECURSIVE AddAll(_, _)
AddAll(ss, more) ==
    IF more = <<>> THEN ss ELSE AddAll(add_stage(ss, Head(more)), Tail(more))

\* C7: for the stage lists A and B of any two adapters and any payload P,
\* running B on the result of running A on P gives what running the chain
\* built by adding all of A then all of B gives on P; an empty chain returns
\* its input.
C7_RunStagesAssociative ==
    \A a \in Adapters, b \in Adapters, P \in Payloads :
        LET A == stages[a]
            B == stages[b]
            rA == run_stages(a, A, P)
            rB == IF rA.raised THEN rA ELSE run_stages(b, B, rA.value)
            rAB == run_stages(a, AddAll(AddAll(<<>>, A), B), P)
        IN /\ rB.raised = rAB.raised
           /\ rB.value = rAB.value
           /\ (A = <<>> => (~rA.raised /\ rA.value = P))

\* C7 witness: run_stages was called while two adapters hold stages that
\* change the value.
C7_Witness ==
    /\ op.name = "run_stages"
    /\ IsStr(op.data)
    /\ \E b \in Adapters \ {op.adapter} :
          /\ "TagStage" \in {stages[op.adapter][i] : i \in 1..Len(stages[op.adapter])}
          /\ "TagStage" \in {stages[b][i] : i \in 1..Len(stages[b])}
    /\ ret # op.data

\* C4: process_data calls process of every registered adapter once, with
\* the original payload, in registration order, whatever the adapters
\* before it did.
C4_BroadcastReachesEveryAdapter ==
    op.name = "process_data"
        => ProcessEvents(trace)
             = [i \in 1..Len(pipelines) |-> ProcessCall(pipelines[i], op.data)]

\* C4 witness: the first of two registered adapters rejected the payload and
\* the second accepted it.
C4_Witness ==
    /\ op.name = "process_data"
    /\ Len(pipelines) = 2
    /\ ~MatchesContract(pipelines[1], op.data)
    /\ MatchesContract(pipelines[2], op.data)

\* C6: process, process_data and chain_pipelines always return to their
\* caller; none lets an error out.
C6_NoFaultEscapes ==
    op.name \in {"process", "process_data", "chain_pipelines"}
        => outcome = "returned"

\* C6 witness: chain_pipelines ran a stage that failed.
C6_Witness ==
    /\ op.name = "chain_pipelines"
    /\ \E k \in 1..Len(trace) :
          /\ trace[k].ev = "stage"
          /\ stages[trace[k].adapter][trace[k].idx] = "FailingStage"

\* the adapter's process fails on this input
Failed(adapter, data) == Process(adapter, data).value = NoneValue

\* C2: chain_pipelines calls no adapter after one whose process failed.
C2_ChainHaltsAtFirstFailure ==
    op.name = "chain_pipelines"
        => LET pe == ProcessEvents(trace)
           IN \A j \in 1..(Len(pe) - 1) : ~Failed(pe[j].adapter, pe[j].data)

\* C3: process_data returns the list of its adapters' outcomes, one per
\* registered adapter, in registration order.
C3_BroadcastReturnsOutcomes ==
    (op.name = "process_data" /\ Len(pipelines) >= 1)
        => /\ ret.kind = "list"
           /\ Len(ret.items) = Len(pipelines)
           /\ \A i \in 1..Len(pipelines) :
                 ret.items[i] = Process(pipelines[i], op.data).value

\* C5: when the primary adapter fails, the recovery calls a fallback adapter
\* once, after the primary, and returns the fallback's successful outcome.
C5_RecoveryRunsFallback ==
    (op.name = "recovery_test" /\ Failed(op.adapter, op.data))
        => LET pe == ProcessEvents(trace)
           IN /\ Len(pe) = 2
              /\ pe[1].adapter = op.adapter
              /\ pe[2].adapter # op.adapter
              /\ pe[2].data = op.data
              /\ ret # NoneValue
              /\ ret = Process(pe[2].adapter, op.data).value

(***************************************************************************)
(* The operations of ex1.  succeeded[s] is the sum of the lengths of the   *)
(* batches that process_batch of s returned for: it is kept for the        *)
(* property, the program has no such field.                                *)
(***************************************************************************)
StreamCall(name, stream, batch, criteria) ==
    [name |-> name, stream |-> stream, batch |-> batch, criteria |-> criteria]

StreamDone(call, r) ==
    /\ op' = call
    /\ outcome' = IF r.raised THEN "raised" ELSE "returned"
    /\ ret' = r.value
    /\ trace' = <<>>
    /\ total_processed' = [total_processed EXCEPT ![call.stream] = r.total]
    /\ UNCHANGED ex2vars

Batches == SeqsUpTo(Elements, MaxBatch)

ProcessBatch ==
    \E s \in Streams, batch \in Batches :
        LET r == process_batch(s, total_processed[s], batch)
        IN /\ total_processed[s] + Len(batch) <= MaxTotal
           /\ StreamDone(StreamCall("process_batch", s, batch, "None"), r)
           /\ succeeded' =
                 IF r.raised THEN succeeded
                 ELSE [succeeded EXCEPT ![s] = @ + Len(batch)]

FilterData ==
    \E s \in Streams, batch \in Batches, criteria \in Criteria :
        /\ StreamDone(StreamCall("filter_data", s, batch, criteria),
                      filter_data(s, total_processed[s], batch, criteria))
        /\ UNCHANGED succeeded

GetStats ==
    \E s \in Streams :
        /\ StreamDone(StreamCall("get_stats", s, <<>>, "None"),
                      get_stats(s, total_processed[s]))
        /\ UNCHANGED succeeded

NextStream == ProcessBatch \/ FilterData \/ GetStats

SpecStream == Init /\ [][NextStream]_vars

\* C10: total_processed of every stream is the sum of the lengths of the
\* batches its process_batch returned for; a process_batch that raises,
\* filter_data and get_stats leave it as it was.
C10_TotalCountsSuccessfulBatches ==
    \A s \in Streams : total_processed[s] = succeeded[s]

(***************************************************************************)
(* The operations of ex0.  The processors have no fields: a call leaves    *)
(* only its result.  Demo is the body of the loop that ends __main__:      *)
(* validate, then process what was accepted.                               *)
(***************************************************************************)
ProcessorCall(name, processor, data) ==
    [name |-> name, processor |-> processor, data |-> data]

ProcessorPayloads ==
    {NoneValue}
        \cup {ListOf(xs) : xs \in SeqsUpTo(ListElements, MaxLen)}
        \cup {Str(s) : s \in SeqsUpTo(Alphabet, MaxStrLen)}

ProcessorDone(call, r) ==
    /\ op' = call
    /\ outcome' = IF r.raised THEN "raised" ELSE "returned"
    /\ ret' = r.value
    /\ trace' = <<>>

Validate ==
    \E p \in Processors, data \in ProcessorPayloads :
        /\ ProcessorDone(ProcessorCall("validate", p, data), validate(p, data))
        /\ UNCHANGED <<ex2vars, ex1vars>>

ProcessorProcess ==
    \E p \in Processors, data \in ProcessorPayloads :
        /\ ProcessorDone(ProcessorCall("processor_process", p, data),
                         processor_process(p, data))
        /\ UNCHANGED <<ex2vars, ex1vars>>

Demo ==
    \E p \in Processors, data \in ProcessorPayloads :
        /\ ProcessorDone(
               ProcessorCall("demo", p, data),
               IF validate(p, data).value.b
               THEN LET r == processor_process(p, data)
                    IN IF r.raised THEN r
                       ELSE Returned(Str(<<"Result: ">> \o r.value.text), <<>>)
               ELSE Returned(Str(<<"Result: Invalid data">>), <<>>))
        /\ UNCHANGED <<ex2vars, ex1vars>>

NextProcessor == Validate \/ ProcessorProcess \/ Demo

SpecProcessor == Init /\ [][NextProcessor]_vars

\* C8: process returns for every payload that validate of the same
\* processor accepts.
C8_ValidatedPayloadIsProcessed ==
    (op.name = "processor_process" /\ validate(op.processor, op.data).value.b)
        => outcome = "returned"

====
